---------------------------- MODULE Spec2Model ----------------------------
(***************************************************************************)
(* A model of eth/client.go of go-livepeer: the transcoder-pool hint       *)
(* simulator (simulateTranscoderPoolUpdate, findTranscoderHints), the      *)
(* staking operations that call it, GetDelegator, and CheckTx with the     *)
(* receipt broadcast its callers subscribe to.                             *)
(*                                                                         *)
(* A Go slice is modelled as a record [arr, len]: arr is the backing array *)
(* from the slice's first element to its capacity, len the slice's length. *)
(* Two slices that share a backing array see each other's writes, which is *)
(* what the simulator's append and sort.SliceStable calls act on.          *)
(***************************************************************************)
EXTENDS Integers, Sequences, FiniteSets, TLC

\* ------------------------------------------------------------------ bounds
MaxPool  == 3   \* longest pool read from the chain
MaxStake == 4   \* largest stake of a pool entry
MaxCalls == 2   \* successive simulator calls on the same caller slice
MaxLen    == 2  \* longest pool a staking operation reads
MaxTotal  == 2  \* largest stake a staking operation reads
MaxAmount == 1  \* largest amount, allowance, pending stake or lock amount
MaxWalk   == 4  \* most entries a walk of the on-chain list is followed for

\* --------------------------------------------------------------- addresses
NullAddress == "0x0"
Addrs       == {"A", "B", "C", "D"}
Stakes      == 1..MaxStake

\* what the staking operations are called with and read
Account     == "A"                \* c.Account().Address
Delegates   == {"A", "B"}         \* addresses bonded to
PoolAddrs   == {"A", "B", "C"}    \* addresses in the pools read
Amounts     == 0..MaxAmount
Totals      == 1..MaxTotal
LockIDs     == {0, 1}

VARIABLES
  \* the simulator's caller (SimSpec)
  simDel,      \* target address passed to the simulator
  simStake,    \* newStake passed to the simulator
  simFull,     \* isFull passed to the simulator
  simPool,     \* the caller's slice `transcoders`
  simArg,      \* the caller's pool (a sequence) as it was when the last call was made
  simList,     \* the simulated list the last call took its hints from
  simHints,    \* hints returned, one per call made, oldest first
  simCalls     \* calls made so far

simVars == <<simDel, simStake, simFull, simPool, simArg, simList, simHints, simCalls>>

VARIABLES
  \* one invocation of a staking operation (Spec)
  op,     \* the operation invoked, "idle" before
  pc,     \* the invocation's next step, "done" once it has returned
  args,   \* the arguments it was called with
  loc,    \* its local variables
  txs,    \* the transactions it has submitted, oldest first
  ret,    \* the error it returned (NoErr: it returned a transaction)
  obs     \* what it has read and been told, as read

opVars == <<op, pc, args, loc, txs, ret, obs>>

VARIABLES
  \* CheckTx callers and the transaction manager they subscribe to (TrackerSpec)
  ck,      \* per caller: its position in CheckTx, the hash it waits on, its result
  chans,   \* per receipt channel: the receipts buffered in it, oldest first
  subs,    \* the callers whose subscription is registered
  errc,    \* per caller: the error waiting on its subscription's error channel
  sent,    \* the receipts broadcast so far, oldest first
  down     \* the receipt stream has failed

trkVars == <<ck, chans, subs, errc, sent, down>>

VARIABLES
  \* one call of GetDelegator (DelegatorSpec)
  gd       \* what its reads returned and what it returned

VARIABLES
  \* one call of TranscoderPool walking the on-chain list (PoolWalkSpec)
  walk     \* the list it walks, its position, what it has read, its result

vars == <<simVars, opVars, trkVars, gd, walk>>

\* the variables a staking operation leaves alone
restVars == <<simVars, trkVars, gd, walk>>

\* ------------------------------------------------------------ Go slices
Transcoder(a, s) == [Address |-> a, DelegatedStake |-> s]

\* a nil *lpTypes.Transcoder in an unused cell of a backing array
NilTranscoder == Transcoder(NullAddress, 0)

NilSlice == [arr |-> <<>>, len |-> 0]

Cap(sl) == Len(sl.arr)

\* the elements of a slice, in order
Elems(sl) == SubSeq(sl.arr, 1, sl.len)

\* append(s, e) of one element: in place when the capacity allows, otherwise into
\* a new array of doubled capacity (the gc runtime's growth for small slices)
AppendSlice(sl, e) ==
  IF sl.len < Cap(sl)
    THEN [arr |-> [sl.arr EXCEPT ![sl.len + 1] = e], len |-> sl.len + 1]
    ELSE LET newcap == IF Cap(sl) = 0 THEN 1 ELSE 2 * Cap(sl)
         IN  [arr |-> [k \in 1..newcap |->
                         IF k <= sl.len THEN sl.arr[k]
                         ELSE IF k = sl.len + 1 THEN e ELSE NilTranscoder],
              len |-> sl.len + 1]

\* the slice TranscoderPool returns for the on-chain list `pool`: built from nil
\* by one append per entry
RECURSIVE BuildPool(_, _)
BuildPool(sl, pool) ==
  IF pool = <<>> THEN sl ELSE BuildPool(AppendSlice(sl, Head(pool)), Tail(pool))

TranscoderPoolSlice(pool) == BuildPool(NilSlice, pool)

\* -------------------------------------------------------- the simulator
\* index (from 1) of the first entry of the slice with address del, 0 if none
RECURSIVE IndexFrom(_, _, _)
IndexFrom(sl, del, i) ==
  IF i > sl.len THEN 0
  ELSE IF sl.arr[i].Address = del THEN i ELSE IndexFrom(sl, del, i + 1)

IndexOf(sl, del) == IndexFrom(sl, del, 1)

\* append(transcoders[:i], transcoders[i+1:]...): the tail is moved one cell down
\* inside the same backing array; the cell of the old last element keeps its value
RemoveAt(sl, i) ==
  [arr |-> [k \in 1..Cap(sl) |->
              IF k >= i /\ k < sl.len THEN sl.arr[k + 1] ELSE sl.arr[k]],
   len |-> sl.len - 1]

\* a simulator that leaves del's old entry in the list
RemoveDel_Keep(sl, del) == sl

\* the loop that removes del's entry, if any
RemoveDel(sl, del) ==
  IF IndexOf(sl, del) = 0 THEN sl ELSE RemoveAt(sl, IndexOf(sl, del))

\* a comparison that also reports equal stakes as out of order
less_OrEqual(arr, i, j) == arr[i].DelegatedStake >= arr[j].DelegatedStake

\* the less function handed to sort.SliceStable
less(arr, i, j) == arr[i].DelegatedStake > arr[j].DelegatedStake

Swap(arr, i, j) == [arr EXCEPT ![i] = arr[j], ![j] = arr[i]]

\* sort.SliceStable on fewer than 20 elements is one insertion sort
RECURSIVE Sift(_, _)
Sift(arr, j) ==
  IF j > 1 /\ less(arr, j, j - 1) THEN Sift(Swap(arr, j, j - 1), j - 1) ELSE arr

RECURSIVE InsertionSort(_, _, _)
InsertionSort(arr, i, n) ==
  IF i > n THEN arr ELSE InsertionSort(Sift(arr, i), i + 1, n)

\* sorts the slice's elements in place, in its backing array
SliceStable(sl) == [sl EXCEPT !.arr = InsertionSort(sl.arr, 2, sl.len)]

\* a simulator that never evicts
Evict_Never(sl, isFull) == sl

\* if the list was full evict the last transcoder: transcoders[:len-1]
Evict(sl, isFull) == IF isFull THEN [sl EXCEPT !.len = sl.len - 1] ELSE sl

NoHints == [PosPrev |-> NullAddress, PosNext |-> NullAddress]

\* a loop body that gives hints for a target at the head only
HintsStep_HeadOnly(del, ts, i, hints) ==
  IF ts[i].Address = del /\ Len(ts) > 1 /\ i = 1
    THEN [hints EXCEPT !.PosNext = ts[i + 1].Address]
    ELSE hints

\* one iteration of findTranscoderHints' loop, at index i (from 1)
HintsStep(del, ts, i, hints) ==
  IF ts[i].Address = del /\ Len(ts) > 1
    THEN IF i = 1 THEN [hints EXCEPT !.PosNext = ts[i + 1].Address]
         ELSE IF i = Len(ts) THEN [hints EXCEPT !.PosPrev = ts[i - 1].Address]
         ELSE [PosPrev |-> ts[i - 1].Address, PosNext |-> ts[i + 1].Address]
    ELSE hints

RECURSIVE HintsLoop(_, _, _, _)
HintsLoop(del, ts, i, hints) ==
  IF i > Len(ts) THEN hints
  ELSE HintsLoop(del, ts, i + 1, HintsStep(del, ts, i, hints))

findTranscoderHints(del, ts) == HintsLoop(del, ts, 1, NoHints)

\* simulateTranscoderPoolUpdate(del, newStake, transcoders, isFull).
\*   hints:  the value returned
\*   list:   the local list findTranscoderHints is called on
\*   caller: the caller's slice after the call (same length, same backing array,
\*           whose cells the call may have written)
simulateTranscoderPoolUpdate(del, newStake, transcoders, isFull) ==
  LET removed  == RemoveDel(transcoders, del)
      shared   == removed.len < Cap(removed)
      inserted == AppendSlice(removed, Transcoder(del, newStake))
      sorted   == SliceStable(inserted)
      final    == Evict(sorted, isFull)
  IN  [hints  |-> findTranscoderHints(del, Elems(final)),
       list   |-> Elems(final),
       caller |-> [arr |-> IF shared THEN sorted.arr ELSE removed.arr,
                   len |-> transcoders.len]]

\* --------------------------------------------------- the on-chain pool
IsSortedDesc(ts) ==
  \A i \in 1..(Len(ts) - 1) : ts[i].DelegatedStake >= ts[i + 1].DelegatedStake

UniqueAddrs(ts) ==
  \A i, j \in 1..Len(ts) : i # j => ts[i].Address # ts[j].Address

Entries == {Transcoder(a, s) : a \in Addrs, s \in Stakes}

\* what a walk of the on-chain list can return: each address once, stakes descending
ChainPools ==
  {p \in UNION {[1..n -> Entries] : n \in 0..MaxPool} :
     UniqueAddrs(p) /\ IsSortedDesc(p)}

\* what a staking operation can read as the pool
OrchPools ==
  {p \in UNION {[1..n -> {Transcoder(a, t) : a \in PoolAddrs, t \in Totals}] :
                  n \in 0..MaxLen} :
     UniqueAddrs(p) /\ IsSortedDesc(p)}

\* ------------------------------------------------- errors, transactions
\* An error is the sequence of its messages, outermost first; nil is empty.
NoErr                 == <<>>
ErrCall               == <<"contract call failed">>
ErrEmptyOutput        == <<"abi: unmarshalling empty output">>
ErrSend               == <<"transaction not sent">>
ErrSubscription       == <<"subscription failed">>
ErrReceipt            == <<"receipt error">>
ErrTxFailed(txHash)   == <<"transaction failed txHash=", txHash>>
ErrCurrentRoundLocked == <<"current round locked">>
ErrRoundInitialized   == <<"ErrRoundInitialized">>
ErrNoRewards          == <<"no rewards to be minted">>
ErrUnknownStatus      == <<"unknown delegator status">>

\* errors.Wrapf(err, msg)
Wrapf(err, msg) == <<msg>> \o err

\* a transaction handed to the backend: the contract method and its arguments
Tx(method, amount, to, lockID, old, new) ==
  [method |-> method, amount |-> amount, to |-> to, lockID |-> lockID,
   old |-> old, new |-> new]

\* tx.Hash() of the approval Bond submits, and of some other transaction
ApproveHash == "0xa1"
OtherHash   == "0xb2"

\* the hash of the transaction that replaced a submitted one and was mined
ReplacedHash == "0xc3"

\* what the transaction manager can put on a subscriber's receipt channel: the
\* hash the transaction was submitted under, the hash it was mined under, its
\* status and the error of the wait for it
Receipts ==
  {r \in [originTxHash : {ApproveHash, OtherHash},
          TxHash : {ApproveHash, OtherHash, ReplacedHash},
          err : {NoErr, ErrReceipt}, Status : {0, 1}] :
     r.TxHash \in {r.originTxHash, ReplacedHash}}

\* a receipt case that does not compare hashes
CheckTxReceipt_AnyHash(txHash, receipt) ==
  IF receipt.err # NoErr THEN [returns |-> TRUE, err |-> receipt.err]
  ELSE IF receipt.Status = 0
         THEN [returns |-> TRUE, err |-> ErrTxFailed(receipt.TxHash)]
  ELSE [returns |-> TRUE, err |-> NoErr]

\* CheckTx's handling of one receipt taken from its channel: whether it returns,
\* and with which error
CheckTxReceipt(txHash, receipt) ==
  IF txHash = receipt.originTxHash
    THEN IF receipt.err # NoErr THEN [returns |-> TRUE, err |-> receipt.err]
         ELSE IF receipt.Status = 0
                THEN [returns |-> TRUE, err |-> ErrTxFailed(receipt.TxHash)]
         ELSE [returns |-> TRUE, err |-> NoErr]
    ELSE [returns |-> FALSE, err |-> NoErr]

\* ------------------------------------------- an invocation's variables
Loc0 ==
  [allowance |-> 0, amount |-> 0, transcoders |-> NilSlice, maxSize |-> 0,
   delegator |-> [DelegateAddress |-> NullAddress], delegatorTotalStake |-> 0,
   totalBonded |-> 0, oldHints |-> NoHints, newHints |-> NoHints,
   hints |-> NoHints, lock |-> 0, ep |-> 0, mintable |-> 0, reward |-> 0]

Obs0 ==
  [readFailed |-> FALSE,   \* a read of this invocation has failed
   approval |-> "none",    \* what CheckTx said of the approval: "ok", "failed"
   poolRead |-> FALSE,     \* TranscoderPool has been called
   pool |-> <<>>,          \* the pool as TranscoderPool returned it
   oldTotal |-> 0,         \* total stake read for the current delegate
   toTotal |-> 0,          \* total stake read for the new delegate
   bonded |-> -1,          \* total bonded as Reward read it, -1 before
   flag |-> "none",        \* the boolean Transcoder or InitializeRound read
   attempts |-> <<>>]      \* the methods handed to the backend, oldest first

OpIdle ==
  /\ op = "idle" /\ pc = "idle"
  /\ args = [amount |-> 0, to |-> NullAddress, lockID |-> 0]
  /\ loc = Loc0 /\ txs = <<>> /\ ret = NoErr /\ obs = Obs0

\* ------------------------------------------------- CheckTx's callers
Callers == {"c1", "c2"}

\* a caller before its call of CheckTx
Ck0 ==
  [pc |-> "idle",       \* "waiting" in the select loop, "done" once returned
   tx |-> "",           \* tx.Hash()
   ret |-> NoErr,       \* the error returned
   by |-> "none",       \* the select case it returned from: "err", "receipt"
   seen |-> <<>>,       \* the receipts it has taken from its channel, oldest first
   regAt |-> 0,         \* how many receipts had been broadcast when it subscribed
   notified |-> FALSE]  \* it was registered when the stream failure was propagated

\* no caller is in CheckTx and nothing was broadcast
TrkIdle ==
  /\ ck = [c \in Callers |-> Ck0]
  /\ chans = [c \in Callers |-> <<>>]
  /\ subs = {}
  /\ errc = [c \in Callers |-> NoErr]
  /\ sent = <<>>
  /\ down = FALSE

\* GetDelegator has not been called
GdIdle == gd = [called |-> FALSE]

\* TranscoderPool is not being walked
WalkIdle == walk = [pc |-> "idle"]

\* ------------------------------------------------ SimSpec: the simulator
SimInit ==
  /\ simDel \in Addrs
  /\ simStake \in 0..(MaxStake + 1)
  /\ simFull \in BOOLEAN
  /\ \E p \in ChainPools : simPool = TranscoderPoolSlice(p)
  /\ simArg = <<>>
  /\ simList = <<>>
  /\ simHints = <<>>
  /\ simCalls = 0
  /\ OpIdle /\ TrkIdle /\ GdIdle /\ WalkIdle

\* the caller passes its slice to the simulator and keeps the hints
SimCall ==
  /\ simCalls < MaxCalls
  /\ LET r == simulateTranscoderPoolUpdate(simDel, simStake, simPool, simFull)
     IN  /\ simArg' = Elems(simPool)
         /\ simList' = r.list
         /\ simHints' = Append(simHints, r.hints)
         /\ simPool' = r.caller
  /\ simCalls' = simCalls + 1
  /\ UNCHANGED <<simDel, simStake, simFull, opVars, trkVars, gd, walk>>

SimNext == SimCall

SimSpec == SimInit /\ [][SimNext]_vars

\* no simulator call is being examined
SimIdle ==
  /\ simDel = NullAddress /\ simStake = 0 /\ simFull = FALSE
  /\ simPool = NilSlice /\ simArg = <<>> /\ simList = <<>>
  /\ simHints = <<>> /\ simCalls = 0

\* ------------------------------------------- the staking operations
\* the call of an operation with its arguments
Call(name, amount, to, lockID, first) ==
  /\ op = "idle"
  /\ op' = name /\ pc' = first
  /\ args' = [amount |-> amount, to |-> to, lockID |-> lockID]
  /\ loc' = [Loc0 EXCEPT !.amount = amount]
  /\ UNCHANGED <<txs, ret, obs, restVars>>

At(name, label) == op = name /\ pc = label

\* the invocation goes on to its next step with its locals updated
Goes(next, newLoc) ==
  /\ pc' = next /\ loc' = newLoc
  /\ UNCHANGED <<op, args, txs, ret, restVars>>

\* return nil, err
Returns(err) ==
  /\ pc' = "done" /\ ret' = err
  /\ UNCHANGED <<op, args, loc, txs, restVars>>

\* a contract read fails and the operation returns err
ReadFails(err) ==
  /\ Returns(err)
  /\ obs' = [obs EXCEPT !.readFailed = TRUE]

\* the hand-over of a transaction to the backend is noted
Attempt(method) == obs' = [obs EXCEPT !.attempts = Append(@, method)]

\* a final submission that is repeated until the backend takes it
Submits_Retry(tx) ==
  \/ Attempt(tx.method) /\ UNCHANGED <<op, pc, args, loc, txs, ret, restVars>>
  \/ /\ txs' = Append(txs, tx)
     /\ pc' = "done" /\ ret' = NoErr
     /\ Attempt(tx.method)
     /\ UNCHANGED <<op, args, loc, restVars>>

\* the final transaction is handed to the backend, which sends it or fails
Submits(tx) ==
  \/ Returns(ErrSend) /\ Attempt(tx.method)
  \/ /\ txs' = Append(txs, tx)
     /\ pc' = "done" /\ ret' = NoErr
     /\ Attempt(tx.method)
     /\ UNCHANGED <<op, args, loc, restVars>>

\* len(transcoders) == maxSize
IsFull(l) == l.transcoders.len = l.maxSize

\* ------------------------------------------------------ shared reads
\* c.TranscoderPool()
ReadTranscoderPool(next) ==
  \/ /\ Returns(Wrapf(ErrCall, "unable to get transcoder pool"))
     /\ obs' = [obs EXCEPT !.readFailed = TRUE, !.poolRead = TRUE]
  \/ \E p \in OrchPools :
       /\ Goes(next, [loc EXCEPT !.transcoders = TranscoderPoolSlice(p)])
       /\ obs' = [obs EXCEPT !.pool = p, !.poolRead = TRUE]

\* a read of the maximum size whose error is dropped
ReadMaxSize_Ignore(next) ==
  \/ Goes(next, loc) /\ obs' = [obs EXCEPT !.readFailed = TRUE]
  \/ \E m \in 1..(MaxLen + 1) :
       Goes(next, [loc EXCEPT !.maxSize = m]) /\ UNCHANGED obs

\* c.GetTranscoderPoolMaxSize()
ReadMaxSize(next) ==
  \/ ReadFails(Wrapf(ErrCall, "unable to get transcoder pool max size"))
  \/ \E m \in 1..(MaxLen + 1) :
       Goes(next, [loc EXCEPT !.maxSize = m]) /\ UNCHANGED obs

\* the result of one contract read: an error, or a value
ReadResults(errs, vals) ==
  [err : errs, val : {0}] \cup [err : {NoErr}, val : vals]

\* the statuses lpTypes.ParseDelegatorStatus knows: Pending, Bonded, Unbonded
DelegatorStatuses == {0, 1, 2}

\* lpTypes.ParseDelegatorStatus(dStatus)
ParseDelegatorStatus(dStatus) ==
  IF dStatus \in DelegatorStatuses THEN NoErr ELSE ErrUnknownStatus

\* a GetDelegator that turns every failure of the two pending reads into -1
GetDelegator_AnySentinel(dInfo, dStatus, currentRound, pendingStake, pendingFees) ==
  IF dInfo.err # NoErr THEN [err |-> dInfo.err]
  ELSE IF dStatus.err # NoErr THEN [err |-> dStatus.err]
  ELSE IF ParseDelegatorStatus(dStatus.val) # NoErr
    THEN [err |-> ParseDelegatorStatus(dStatus.val)]
  ELSE IF currentRound.err # NoErr THEN [err |-> currentRound.err]
  ELSE [err |-> NoErr,
        DelegateAddress |-> dInfo.val,
        PendingStake |-> IF pendingStake.err # NoErr THEN -1 ELSE pendingStake.val,
        PendingFees |-> IF pendingFees.err # NoErr THEN -1 ELSE pendingFees.val]

\* c.GetDelegator(addr), from the results of its five reads
GetDelegator(dInfo, dStatus, currentRound, pendingStake, pendingFees) ==
  IF dInfo.err # NoErr THEN [err |-> dInfo.err]
  ELSE IF dStatus.err # NoErr THEN [err |-> dStatus.err]
  ELSE IF ParseDelegatorStatus(dStatus.val) # NoErr
    THEN [err |-> ParseDelegatorStatus(dStatus.val)]
  ELSE IF currentRound.err # NoErr THEN [err |-> currentRound.err]
  ELSE IF pendingStake.err \notin {NoErr, ErrEmptyOutput} THEN [err |-> pendingStake.err]
  ELSE IF pendingFees.err \notin {NoErr, ErrEmptyOutput} THEN [err |-> pendingFees.err]
  ELSE [err |-> NoErr,
        DelegateAddress |-> dInfo.val,
        PendingStake |-> IF pendingStake.err = ErrEmptyOutput THEN -1 ELSE pendingStake.val,
        PendingFees |-> IF pendingFees.err = ErrEmptyOutput THEN -1 ELSE pendingFees.val]

\* what the five reads of c.GetDelegator can return
DelegatorReads ==
  [dInfo : ReadResults({ErrCall}, {NullAddress} \cup Delegates),
   dStatus : ReadResults({ErrCall}, {1, 3}),
   currentRound : ReadResults({ErrCall}, {1}),
   pendingStake : ReadResults({ErrCall, ErrEmptyOutput}, Amounts),
   pendingFees : ReadResults({ErrCall, ErrEmptyOutput}, Amounts)]

\* the outcomes of c.GetDelegator(sender)
DelegatorResults ==
  {GetDelegator(rd.dInfo, rd.dStatus, rd.currentRound, rd.pendingStake, rd.pendingFees) :
     rd \in DelegatorReads}

\* delegator, err := c.GetDelegator(sender); the operations use its delegate only
ReadDelegator(next) ==
  \E d \in DelegatorResults :
    \/ d.err # NoErr /\ ReadFails(Wrapf(d.err, "unable to get delegator"))
    \/ /\ d.err = NoErr
       /\ Goes(next, [loc EXCEPT !.delegator = [DelegateAddress |-> d.DelegateAddress]])
       /\ UNCHANGED obs

\* --------------------------------------------------------------- Bond
\* allowance.Cmp(amount) == -1
NeedsApproval(allowance, amount) == allowance < amount

\* a confirmation wait whose error is dropped
AfterCheckTx_Ignore(err) == "pool"

\* Bond's step after CheckTx has returned err
AfterCheckTx(err) == IF err = NoErr THEN "pool" ELSE "done"

\* delegator.DelegateAddress != to && delegator.DelegateAddress != (ethcommon.Address{})
IsSwitching(delegator, to) ==
  delegator.DelegateAddress # to /\ delegator.DelegateAddress # NullAddress

\* a switch that bonds the new amount only
SwitchAmount_Forget(delegatorTotalStake, amount) == amount

\* amount = new(big.Int).Add(delegatorTotalStake, amount)
SwitchAmount(delegatorTotalStake, amount) == delegatorTotalStake + amount

\* new(big.Int).Sub(totalBonded, delegatorTotalStake)
OldDelegateStake(totalBonded, delegatorTotalStake) == totalBonded - delegatorTotalStake

\* newStake := totalBonded.Add(totalBonded, amount)
NewStake(totalBonded, amount) == totalBonded + amount

BondCall == \E amount \in Amounts, to \in Delegates : Call("Bond", amount, to, 0, "allowance")

\* allowance, err := c.Allowance(sender, c.bondingManagerAddr)
BondAllowance ==
  /\ At("Bond", "allowance")
  /\ \/ ReadFails(ErrCall)
     \/ \E allowance \in Amounts :
          /\ Goes(IF NeedsApproval(allowance, loc.amount) THEN "approve" ELSE "pool",
                  [loc EXCEPT !.allowance = allowance])
          /\ UNCHANGED obs

\* tx, err := c.Approve(c.bondingManagerAddr, amount)
BondApprove ==
  /\ At("Bond", "approve")
  /\ Attempt("Approve")
  /\ \/ Returns(ErrSend)
     \/ /\ txs' = Append(txs, Tx("Approve", loc.amount, NullAddress, 0, NoHints, NoHints))
        /\ pc' = "checktx"
        /\ UNCHANGED <<op, args, loc, ret, restVars>>

\* err = c.CheckTx(tx): the subscription fails, or a receipt is taken from the
\* channel; a receipt of another transaction is dropped and the wait goes on
BondCheckTx ==
  /\ At("Bond", "checktx")
  /\ \/ /\ Returns(ErrSubscription)
        /\ obs' = [obs EXCEPT !.approval = "failed"]
     \/ \E receipt \in Receipts :
          LET r == CheckTxReceipt(ApproveHash, receipt)
          IN  /\ r.returns
              /\ pc' = AfterCheckTx(r.err)
              /\ ret' = r.err
              /\ obs' = [obs EXCEPT !.approval = IF r.err = NoErr THEN "ok" ELSE "failed"]
              /\ UNCHANGED <<op, args, loc, txs, restVars>>
     \/ \E receipt \in Receipts :
          /\ ~CheckTxReceipt(ApproveHash, receipt).returns
          /\ UNCHANGED vars

BondTranscoderPool == At("Bond", "pool") /\ ReadTranscoderPool("maxsize")

BondMaxSize == At("Bond", "maxsize") /\ ReadMaxSize("delegator")

\* delegator, err := c.GetDelegator(sender), then the choice of the switching path
BondGetDelegator ==
  /\ At("Bond", "delegator")
  /\ \E d \in DelegatorResults :
       \/ d.err # NoErr /\ ReadFails(Wrapf(d.err, "unable to get delegator"))
       \/ /\ d.err = NoErr
          /\ Goes(IF IsSwitching(d, args.to) THEN "round" ELSE "total",
                  [loc EXCEPT !.delegator = [DelegateAddress |-> d.DelegateAddress]])
          /\ UNCHANGED obs

\* currentRound, err := c.CurrentRound()
BondCurrentRound ==
  /\ At("Bond", "round")
  /\ \/ ReadFails(ErrCall)
     \/ Goes("pending", loc) /\ UNCHANGED obs

\* delegatorTotalStake, err := c.PendingStake(sender, currentRound), and the new amount
BondPendingStake ==
  /\ At("Bond", "pending")
  /\ \/ \E err \in {ErrCall, ErrEmptyOutput} : ReadFails(err)
     \/ \E pending \in Amounts :
          /\ Goes("oldtotal", [loc EXCEPT !.delegatorTotalStake = pending,
                                          !.amount = SwitchAmount(pending, loc.amount)])
          /\ UNCHANGED obs

\* totalBonded, err := c.TranscoderTotalStake(delegator.DelegateAddress), and oldHints
BondOldTotalStake ==
  /\ At("Bond", "oldtotal")
  /\ \/ ReadFails(ErrCall)
     \/ \E totalBonded \in Totals :
          LET r == simulateTranscoderPoolUpdate(
                     loc.delegator.DelegateAddress,
                     OldDelegateStake(totalBonded, loc.delegatorTotalStake),
                     loc.transcoders, IsFull(loc))
          IN  /\ Goes("total", [loc EXCEPT !.oldHints = r.hints,
                                           !.transcoders = r.caller])
              /\ obs' = [obs EXCEPT !.oldTotal = totalBonded]

\* totalBonded, err := c.TranscoderTotalStake(to), newStake and newHints
BondTotalStake ==
  /\ At("Bond", "total")
  /\ \/ ReadFails(ErrCall)
     \/ \E totalBonded \in Totals :
          LET newStake == NewStake(totalBonded, loc.amount)
              r == simulateTranscoderPoolUpdate(args.to, newStake, loc.transcoders, IsFull(loc))
          IN  /\ Goes("submit", [loc EXCEPT !.totalBonded = newStake,
                                            !.newHints = r.hints,
                                            !.transcoders = r.caller])
              /\ obs' = [obs EXCEPT !.toTotal = totalBonded]

\* return c.BondingManagerSession.BondWithHint(amount, to, oldHints..., newHints...)
BondWithHint ==
  /\ At("Bond", "submit")
  /\ Submits(Tx("BondWithHint", loc.amount, args.to, 0, loc.oldHints, loc.newHints))

Bond ==
  \/ BondCall \/ BondAllowance \/ BondApprove \/ BondCheckTx
  \/ BondTranscoderPool \/ BondMaxSize \/ BondGetDelegator
  \/ BondCurrentRound \/ BondPendingStake \/ BondOldTotalStake
  \/ BondTotalStake \/ BondWithHint

\* ------------------------------------------------------------- Unbond
\* an unbonding that raises the delegate's stake
UnbondStake_Add(totalBonded, amount) == totalBonded + amount

\* newStake := totalBonded.Sub(totalBonded, amount)
UnbondStake(totalBonded, amount) == totalBonded - amount

\* a rebonding that leaves the lock's amount out
RebondStake_NoLock(totalBonded, lockAmount) == totalBonded

\* newStake := totalBonded.Add(totalBonded, lock.Amount)
RebondStake(totalBonded, lockAmount) == totalBonded + lockAmount

UnbondCall == \E amount \in Amounts : Call("Unbond", amount, NullAddress, 0, "delegator")

UnbondGetDelegator == At("Unbond", "delegator") /\ ReadDelegator("pool")

UnbondTranscoderPool == At("Unbond", "pool") /\ ReadTranscoderPool("maxsize")

UnbondMaxSize == At("Unbond", "maxsize") /\ ReadMaxSize("total")

\* totalBonded, err := c.TranscoderTotalStake(delegator.DelegateAddress); newStake; hints
UnbondTotalStake ==
  /\ At("Unbond", "total")
  /\ \/ ReadFails(ErrCall)
     \/ \E totalBonded \in Totals :
          LET newStake == UnbondStake(totalBonded, loc.amount)
              r == simulateTranscoderPoolUpdate(loc.delegator.DelegateAddress, newStake,
                                                loc.transcoders, IsFull(loc))
          IN  /\ Goes("submit", [loc EXCEPT !.totalBonded = newStake,
                                            !.hints = r.hints,
                                            !.transcoders = r.caller])
              /\ obs' = [obs EXCEPT !.oldTotal = totalBonded]

\* return c.UnbondWithHint(amount, hints.PosPrev, hints.PosNext)
UnbondWithHint ==
  /\ At("Unbond", "submit")
  /\ Submits(Tx("UnbondWithHint", loc.amount, NullAddress, 0, NoHints, loc.hints))

Unbond ==
  \/ UnbondCall \/ UnbondGetDelegator \/ UnbondTranscoderPool
  \/ UnbondMaxSize \/ UnbondTotalStake \/ UnbondWithHint

\* ------------------------------------------------- RebondFromUnbonded
RebondFromUnbondedCall ==
  \E to \in Delegates, lockID \in LockIDs :
    Call("RebondFromUnbonded", 0, to, lockID, "pool")

RebondFromUnbondedTranscoderPool ==
  At("RebondFromUnbonded", "pool") /\ ReadTranscoderPool("maxsize")

RebondFromUnbondedMaxSize ==
  At("RebondFromUnbonded", "maxsize") /\ ReadMaxSize("total")

\* totalBonded, err := c.TranscoderTotalStake(to)
RebondFromUnbondedTotalStake ==
  /\ At("RebondFromUnbonded", "total")
  /\ \/ ReadFails(ErrCall)
     \/ \E totalBonded \in Totals :
          /\ Goes("lock", [loc EXCEPT !.totalBonded = totalBonded])
          /\ obs' = [obs EXCEPT !.toTotal = totalBonded]

\* lock, err := c.GetDelegatorUnbondingLock(sender, unbondingLockID); newStake; hints
RebondFromUnbondedLock ==
  /\ At("RebondFromUnbonded", "lock")
  /\ \/ ReadFails(Wrapf(ErrCall, "unable to get unbonding lock"))
     \/ \E lockAmount \in Amounts :
          LET newStake == RebondStake(loc.totalBonded, lockAmount)
              r == simulateTranscoderPoolUpdate(args.to, newStake,
                                                loc.transcoders, IsFull(loc))
          IN  /\ Goes("submit", [loc EXCEPT !.lock = lockAmount,
                                            !.totalBonded = newStake,
                                            !.hints = r.hints,
                                            !.transcoders = r.caller])
              /\ UNCHANGED obs

\* return c.RebondFromUnbondedWithHint(to, unbondingLockID, hints.PosPrev, hints.PosNext)
RebondFromUnbondedWithHint ==
  /\ At("RebondFromUnbonded", "submit")
  /\ Submits(Tx("RebondFromUnbondedWithHint", 0, args.to, args.lockID, NoHints, loc.hints))

RebondFromUnbonded ==
  \/ RebondFromUnbondedCall \/ RebondFromUnbondedTranscoderPool
  \/ RebondFromUnbondedMaxSize \/ RebondFromUnbondedTotalStake
  \/ RebondFromUnbondedLock \/ RebondFromUnbondedWithHint

\* ------------------------------------------------------------- Rebond
RebondCall == \E lockID \in LockIDs : Call("Rebond", 0, NullAddress, lockID, "delegator")

RebondGetDelegator == At("Rebond", "delegator") /\ ReadDelegator("pool")

RebondTranscoderPool == At("Rebond", "pool") /\ ReadTranscoderPool("maxsize")

RebondMaxSize == At("Rebond", "maxsize") /\ ReadMaxSize("lock")

\* lock, err := c.GetDelegatorUnbondingLock(sender, unbondingLockID)
RebondLock ==
  /\ At("Rebond", "lock")
  /\ \/ ReadFails(Wrapf(ErrCall, "unable to get unbonding lock"))
     \/ \E lockAmount \in Amounts :
          Goes("total", [loc EXCEPT !.lock = lockAmount]) /\ UNCHANGED obs

\* transcoderStake, err := c.TranscoderTotalStake(delegator.DelegateAddress); newStake; hints
RebondTotalStake ==
  /\ At("Rebond", "total")
  /\ \/ ReadFails(ErrCall)
     \/ \E transcoderStake \in Totals :
          LET newStake == RebondStake(transcoderStake, loc.lock)
              r == simulateTranscoderPoolUpdate(loc.delegator.DelegateAddress, newStake,
                                                loc.transcoders, IsFull(loc))
          IN  /\ Goes("submit", [loc EXCEPT !.totalBonded = newStake,
                                            !.hints = r.hints,
                                            !.transcoders = r.caller])
              /\ obs' = [obs EXCEPT !.oldTotal = transcoderStake]

\* return c.RebondWithHint(unbondingLockID, hints.PosPrev, hints.PosNext)
RebondWithHint ==
  /\ At("Rebond", "submit")
  /\ Submits(Tx("RebondWithHint", 0, NullAddress, args.lockID, NoHints, loc.hints))

Rebond ==
  \/ RebondCall \/ RebondGetDelegator \/ RebondTranscoderPool
  \/ RebondMaxSize \/ RebondLock \/ RebondTotalStake \/ RebondWithHint

\* ------------------------------------------------------------- Reward
RewardCall == Call("Reward", 0, NullAddress, 0, "round")

\* currentRound, err := c.CurrentRound()
RewardCurrentRound ==
  /\ At("Reward", "round")
  /\ \/ ReadFails(ErrCall)
     \/ Goes("ep", loc) /\ UNCHANGED obs

\* ep, err := c.GetTranscoderEarningsPoolForRound(account, currentRound)
RewardEarningsPool ==
  /\ At("Reward", "ep")
  /\ \/ ReadFails(ErrCall)
     \/ \E totalStake \in Totals :
          Goes("mintable", [loc EXCEPT !.ep = totalStake]) /\ UNCHANGED obs

\* mintable, err := c.CurrentMintableTokens()
RewardMintable ==
  /\ At("Reward", "mintable")
  /\ \/ ReadFails(Wrapf(ErrCall, "unable to get current mintable tokens"))
     \/ \E mintable \in Amounts :
          Goes("bonded", [loc EXCEPT !.mintable = mintable]) /\ UNCHANGED obs

\* a reward computed by dividing first
RewardAmount_DivideFirst(mintable, totalStake, totalBonded) ==
  (mintable \div totalBonded) * totalStake

\* reward = (current mintable tokens for the round * active transcoder stake) / total active stake
RewardAmount(mintable, totalStake, totalBonded) == (mintable * totalStake) \div totalBonded

\* a zero check that reports the total-bonded read as failed
ZeroBonded_AsReadError(totalBonded) ==
  IF totalBonded = 0 THEN Wrapf(ErrCall, "unable to get total bonded") ELSE NoErr

\* if totalBonded.Cmp(big.NewInt(0)) == 0 { return nil, errors.New("no rewards to be minted") }
ZeroBonded(totalBonded) == IF totalBonded = 0 THEN ErrNoRewards ELSE NoErr

\* totalBonded, err := c.GetTotalBonded(); the zero check; reward
RewardTotalBonded ==
  /\ At("Reward", "bonded")
  /\ \/ ReadFails(Wrapf(ErrCall, "unable to get total bonded"))
     \/ \E totalBonded \in 0..MaxTotal :
          /\ obs' = [obs EXCEPT !.bonded = totalBonded]
          /\ IF ZeroBonded(totalBonded) # NoErr
               THEN Returns(ZeroBonded(totalBonded))
               ELSE Goes("pool", [loc EXCEPT !.totalBonded = totalBonded,
                                             !.reward = RewardAmount(loc.mintable, loc.ep,
                                                                     totalBonded)])

RewardTranscoderPool == At("Reward", "pool") /\ ReadTranscoderPool("maxsize")

\* maxSize, err := c.GetTranscoderPoolMaxSize(); hints
RewardMaxSize ==
  /\ At("Reward", "maxsize")
  /\ \/ ReadFails(Wrapf(ErrCall, "unable to get transcoder pool max size"))
     \/ \E m \in 1..(MaxLen + 1) :
          LET r == simulateTranscoderPoolUpdate(Account, loc.reward + loc.ep,
                                                loc.transcoders, loc.transcoders.len = m)
          IN  /\ Goes("submit", [loc EXCEPT !.maxSize = m,
                                            !.reward = loc.reward + loc.ep,
                                            !.hints = r.hints,
                                            !.transcoders = r.caller])
              /\ UNCHANGED obs

\* return c.RewardWithHint(hints.PosPrev, hints.PosNext)
RewardWithHint ==
  /\ At("Reward", "submit")
  /\ Submits(Tx("RewardWithHint", 0, NullAddress, 0, NoHints, loc.hints))

Reward ==
  \/ RewardCall \/ RewardCurrentRound \/ RewardEarningsPool \/ RewardMintable
  \/ RewardTotalBonded \/ RewardTranscoderPool \/ RewardMaxSize \/ RewardWithHint

\* --------------------------------------------------------- Transcoder
TranscoderCall == Call("Transcoder", 0, NullAddress, 0, "locked")

\* the boolean a read returned, as noted in obs
Flag(b) == IF b THEN "true" ELSE "false"

\* a registration that goes ahead in a locked round
AfterRoundLocked_Ignore(locked) == "submit"

\* if locked { return nil, ErrCurrentRoundLocked } else { return c...Transcoder(...) }
AfterRoundLocked(locked) == IF locked THEN "done" ELSE "submit"

\* locked, err := c.CurrentRoundLocked()
TranscoderRoundLocked ==
  /\ At("Transcoder", "locked")
  /\ \/ ReadFails(ErrCall)
     \/ \E locked \in BOOLEAN :
          /\ obs' = [obs EXCEPT !.flag = Flag(locked)]
          /\ pc' = AfterRoundLocked(locked)
          /\ ret' = IF locked THEN ErrCurrentRoundLocked ELSE NoErr
          /\ UNCHANGED <<op, args, loc, txs, restVars>>

\* return c.BondingManagerSession.Transcoder(blockRewardCut, feeShare)
TranscoderSubmit ==
  /\ At("Transcoder", "submit")
  /\ Submits(Tx("Transcoder", 0, NullAddress, 0, NoHints, NoHints))

RegisterTranscoder == TranscoderCall \/ TranscoderRoundLocked \/ TranscoderSubmit

\* ---------------------------------------------------- InitializeRound
InitializeRoundCall == Call("InitializeRound", 0, NullAddress, 0, "initialized")

\* an initialization that is submitted whatever the read reports
AfterRoundInitialized_Ignore(i) == "submit"

\* if i { return nil, errors.New("ErrRoundInitialized") } else { return c...InitializeRound() }
AfterRoundInitialized(i) == IF i THEN "done" ELSE "submit"

\* i, err := c.RoundsManagerSession.CurrentRoundInitialized()
InitializeRoundInitialized ==
  /\ At("InitializeRound", "initialized")
  /\ \/ ReadFails(ErrCall)
     \/ \E i \in BOOLEAN :
          /\ obs' = [obs EXCEPT !.flag = Flag(i)]
          /\ pc' = AfterRoundInitialized(i)
          /\ ret' = IF i THEN ErrRoundInitialized ELSE NoErr
          /\ UNCHANGED <<op, args, loc, txs, restVars>>

\* return c.RoundsManagerSession.InitializeRound()
InitializeRoundSubmit ==
  /\ At("InitializeRound", "submit")
  /\ Submits(Tx("InitializeRound", 0, NullAddress, 0, NoHints, NoHints))

InitializeRound ==
  InitializeRoundCall \/ InitializeRoundInitialized \/ InitializeRoundSubmit

\* -------------------------------------------------------- TrackerSpec
\* receipts := make(chan *transactionReceipt, 10)
ChanCap == 10

\* a channel that every call of CheckTx shares
ChanOf_Shared(c) == "c1"

\* the channel the call of caller c makes for itself
ChanOf(c) == c

\* a select loop that drops the subscription's error and goes on waiting
CheckTxError_Ignore(err) == [returns |-> FALSE, err |-> NoErr]

\* case err := <-txSub.Err(): return err
CheckTxError(err) == [returns |-> TRUE, err |-> err]

\* the call of CheckTx(tx) up to its loop: the channel is made and subscribed
CheckTxSubscribe(c) ==
  /\ ck[c].pc = "idle"
  /\ \E h \in {ApproveHash, OtherHash} :
       ck' = [ck EXCEPT ![c] = [@ EXCEPT !.pc = "waiting", !.tx = h,
                                         !.regAt = Len(sent)]]
  /\ subs' = subs \cup {c}
  /\ UNCHANGED <<chans, errc, sent, down, simVars, opVars, gd, walk>>

\* a return that leaves the subscription registered
CheckTxReturn_Leak(c, by, err, seen) ==
  /\ ck' = [ck EXCEPT ![c] = [@ EXCEPT !.pc = "done", !.ret = err, !.by = by,
                                        !.seen = seen]]
  /\ subs' = subs

\* the call of caller c returns err from select case `by`; the deferred
\* txSub.Unsubscribe() runs
CheckTxReturn(c, by, err, seen) ==
  /\ ck' = [ck EXCEPT ![c] = [@ EXCEPT !.pc = "done", !.ret = err, !.by = by,
                                        !.seen = seen]]
  /\ subs' = subs \ {c}

\* select takes the case err := <-txSub.Err()
CheckTxErr(c) ==
  /\ ck[c].pc = "waiting"
  /\ errc[c] # NoErr
  /\ errc' = [errc EXCEPT ![c] = NoErr]
  /\ LET r == CheckTxError(errc[c])
     IN  IF r.returns THEN CheckTxReturn(c, "err", r.err, ck[c].seen)
         ELSE UNCHANGED <<ck, subs>>
  /\ UNCHANGED <<chans, sent, down, simVars, opVars, gd, walk>>

\* select takes the case receipt := <-receipts
CheckTxReceive(c) ==
  /\ ck[c].pc = "waiting"
  /\ chans[ChanOf(c)] # <<>>
  /\ LET receipt == Head(chans[ChanOf(c)])
         r == CheckTxReceipt(ck[c].tx, receipt)
         seen == Append(ck[c].seen, receipt)
     IN  IF r.returns THEN CheckTxReturn(c, "receipt", r.err, seen)
         ELSE /\ ck' = [ck EXCEPT ![c] = [@ EXCEPT !.seen = seen]]
              /\ UNCHANGED subs
  /\ chans' = [chans EXCEPT ![ChanOf(c)] = Tail(@)]
  /\ UNCHANGED <<errc, sent, down, simVars, opVars, gd, walk>>

\* the receipt is put on the channel of every subscriber in S
RECURSIVE Deliver(_, _, _)
Deliver(chs, S, receipt) ==
  IF S = {} THEN chs
  ELSE LET c == CHOOSE x \in S : TRUE
       IN  Deliver([chs EXCEPT ![ChanOf(c)] = Append(@, receipt)], S \ {c}, receipt)

\* the origin hashes of the receipts broadcast so far
SentHashes == {sent[i].originTxHash : i \in 1..Len(sent)}

\* the transaction manager observes the receipt of a transaction and pushes it to
\* every registered subscriber; a transaction has one receipt
Broadcast ==
  /\ ~down
  /\ \A c \in subs : Len(chans[ChanOf(c)]) < ChanCap
  /\ \E receipt \in Receipts :
       /\ receipt.originTxHash \notin SentHashes
       /\ chans' = Deliver(chans, subs, receipt)
       /\ sent' = Append(sent, receipt)
  /\ UNCHANGED <<ck, subs, errc, down, simVars, opVars, gd, walk>>

\* the receipt stream fails: the failure is propagated to the error channel of
\* every subscriber registered at that moment, and nothing is broadcast after it
StreamFails ==
  /\ ~down
  /\ down' = TRUE
  /\ errc' = [c \in Callers |-> IF c \in subs THEN ErrSubscription ELSE errc[c]]
  /\ ck' = [c \in Callers |-> IF c \in subs THEN [ck[c] EXCEPT !.notified = TRUE]
                                              ELSE ck[c]]
  /\ UNCHANGED <<chans, subs, sent, simVars, opVars, gd, walk>>

CheckTx == \E c \in Callers : CheckTxSubscribe(c) \/ CheckTxErr(c) \/ CheckTxReceive(c)

TrackerNext == CheckTx \/ Broadcast \/ StreamFails

\* ------------------------------------------------------ DelegatorSpec
\* one call of c.GetDelegator(addr): its reads return and it returns
GetDelegatorCall ==
  /\ ~gd.called
  /\ \E rd \in DelegatorReads :
       gd' = [called |-> TRUE, reads |-> rd,
              result |-> GetDelegator(rd.dInfo, rd.dStatus, rd.currentRound,
                                      rd.pendingStake, rd.pendingFees)]
  /\ UNCHANGED <<simVars, opVars, trkVars, walk>>

\* ------------------------------------------------------ PoolWalkSpec
\* the addresses the on-chain list can hold
Nodes == PoolAddrs

\* the on-chain lists: the address GetFirstTranscoderInPool returns and, per
\* address, the one GetNextTranscoderInPool returns; lists that loop included
Chains ==
  [first : Nodes \cup {NullAddress}, next : [Nodes -> Nodes \cup {NullAddress}]]

\* a failed walk that hands back the entries collected so far
FailedWalk_Partial(transcoders, err) == [list |-> transcoders, err |-> err]

\* return nil, err
FailedWalk(transcoders, err) == [list |-> NilSlice, err |-> err]

\* the walk ends with result r
WalkReturns(r) == walk' = [walk EXCEPT !.pc = "done", !.result = r]

\* var transcoders; tAddr, err := c.GetFirstTranscoderInPool()
TranscoderPoolFirst ==
  /\ walk.pc = "first"
  /\ \/ WalkReturns(FailedWalk(walk.transcoders, ErrCall))
     \/ walk' = [walk EXCEPT !.pc = "loop", !.tAddr = walk.chain.first,
                             !.reads = Append(@, walk.chain.first)]
  /\ UNCHANGED <<simVars, opVars, trkVars, gd>>

\* the loop body up to the append: t, err := c.GetTranscoder(tAddr)
TranscoderPoolGetTranscoder ==
  /\ walk.pc = "loop"
  /\ walk.tAddr # NullAddress
  /\ walk.transcoders.len < MaxWalk
  /\ \/ WalkReturns(FailedWalk(walk.transcoders, ErrCall))
     \/ \E stake \in Totals :
          walk' = [walk EXCEPT !.pc = "next",
                     !.transcoders = AppendSlice(@, Transcoder(walk.tAddr, stake))]
  /\ UNCHANGED <<simVars, opVars, trkVars, gd>>

\* tAddr, err = c.GetNextTranscoderInPool(tAddr)
TranscoderPoolGetNext ==
  /\ walk.pc = "next"
  /\ \/ WalkReturns(FailedWalk(walk.transcoders, ErrCall))
     \/ walk' = [walk EXCEPT !.pc = "loop", !.tAddr = walk.chain.next[walk.tAddr],
                             !.reads = Append(@, walk.chain.next[walk.tAddr])]
  /\ UNCHANGED <<simVars, opVars, trkVars, gd>>

\* the loop ends on the null address: return transcoders, nil
TranscoderPoolReturn ==
  /\ walk.pc = "loop"
  /\ walk.tAddr = NullAddress
  /\ WalkReturns([list |-> walk.transcoders, err |-> NoErr])
  /\ UNCHANGED <<simVars, opVars, trkVars, gd>>

TranscoderPool ==
  \/ TranscoderPoolFirst \/ TranscoderPoolGetTranscoder
  \/ TranscoderPoolGetNext \/ TranscoderPoolReturn

\* TranscoderPool is called on one of the on-chain lists
PoolWalkInit ==
  /\ OpIdle /\ SimIdle /\ TrkIdle /\ GdIdle
  /\ \E ch \in Chains :
       walk = [pc |-> "first", chain |-> ch, tAddr |-> NullAddress,
               transcoders |-> NilSlice, reads |-> <<>>,
               result |-> [list |-> NilSlice, err |-> NoErr]]

PoolWalkNext == TranscoderPool

PoolWalkSpec == PoolWalkInit /\ [][PoolWalkNext]_vars

\* the call runs in its caller's goroutine and every read returns: its next
\* step is eventually taken
PoolWalkFairSpec == PoolWalkSpec /\ WF_vars(TranscoderPool)

\* --------------------------------------------------------------- Spec
Init == OpIdle /\ SimIdle /\ TrkIdle /\ GdIdle /\ WalkIdle

Next ==
  \/ Bond \/ Unbond \/ RebondFromUnbonded \/ Rebond
  \/ Reward \/ RegisterTranscoder \/ InitializeRound

Spec == Init /\ [][Next]_vars

TrackerSpec == Init /\ [][TrackerNext]_vars

\* a call of CheckTx runs in its caller's goroutine: a select with a ready case
\* is eventually executed
TrackerFairSpec ==
  TrackerSpec /\ \A c \in Callers : WF_vars(CheckTxErr(c) \/ CheckTxReceive(c))

DelegatorNext == GetDelegatorCall

DelegatorSpec == Init /\ [][DelegatorNext]_vars

\* ------------------------------------------------------------------------
\* Properties of the simulator, stated over the last call made:
\*   simArg  the caller's pool when the call was made,
\*   simList the list the hints were taken from, LastHints the hints returned.
LastHints == simHints[simCalls]

AddrsOf(ts) == {ts[i].Address : i \in 1..Len(ts)}

PosOf(ts, a) == CHOOSE i \in 1..Len(ts) : ts[i].Address = a

\* The simulated list, stated without reference to how the code computes it:
\* the pool without the target, then the target with its new stake ...
WithTarget(pool, del, stake) ==
  SelectSeq(pool, LAMBDA t : t.Address # del) \o <<Transcoder(del, stake)>>

\* ... ordered by descending stake, equal stakes in their order of arrival ...
Rank(m, k) ==
  1 + Cardinality({j \in 1..Len(m) :
        \/ m[j].DelegatedStake > m[k].DelegatedStake
        \/ m[j].DelegatedStake = m[k].DelegatedStake /\ j < k})

StableDescending(m) ==
  [p \in 1..Len(m) |-> m[CHOOSE k \in 1..Len(m) : Rank(m, k) = p]]

\* ... without its last entry when the pool is full.
SimulatedList(pool, del, stake, full) ==
  LET l == StableDescending(WithTarget(pool, del, stake))
  IN  IF full THEN SubSeq(l, 1, Len(l) - 1) ELSE l

\* the hints the target's position in a list calls for
PositionHints(del, l) ==
  IF del \notin AddrsOf(l) \/ Len(l) = 1 THEN NoHints
  ELSE LET i == PosOf(l, del)
       IN  [PosPrev |-> IF i = 1 THEN NullAddress ELSE l[i - 1].Address,
            PosNext |-> IF i = Len(l) THEN NullAddress ELSE l[i + 1].Address]

\* C1: the hints returned are those of the target's position in the simulated
\* list (remove the target, append it with its new stake, stable-sort descending,
\* drop the last entry if full): absent or alone -> none; head -> successor only;
\* tail -> predecessor only; middle -> both.
C1_HintsByPosition ==
  simCalls > 0 =>
    /\ simList = SimulatedList(simArg, simDel, simStake, simFull)
    /\ LastHints = PositionHints(simDel, simList)

\* Scenario A: a full pool of three, a fourth address inserted between the first
\* two; the last entry is evicted and the hints are the two neighbours.
C1_Witness ==
  /\ simCalls = 1
  /\ simArg = <<Transcoder("A", 4), Transcoder("B", 2), Transcoder("C", 1)>>
  /\ simDel = "D" /\ simStake = 3 /\ simFull
  /\ simList = <<Transcoder("A", 4), Transcoder("D", 3), Transcoder("B", 2)>>
  /\ LastHints = [PosPrev |-> "A", PosNext |-> "B"]

\* C2: a call leaves the caller's pool (entries, stakes, order) as it was, and a
\* second call with the same arguments returns the same hints as the first.
C2_Pure ==
  simCalls > 0 =>
    /\ Elems(simPool) = simArg
    /\ simCalls > 1 => simHints[simCalls] = simHints[simCalls - 1]

\* the target's neighbours in a pool that holds it
Neighbours(pool, del) ==
  LET i == PosOf(pool, del)
  IN  [PosPrev |-> IF i = 1 THEN NullAddress ELSE pool[i - 1].Address,
       PosNext |-> IF i = Len(pool) THEN NullAddress ELSE pool[i + 1].Address]

HeldAt(pool, del, stake) ==
  \E i \in 1..Len(pool) : pool[i].Address = del /\ pool[i].DelegatedStake = stake

\* C3: for a target already in the (sorted) pool, full or not, simulating with
\* its unchanged stake returns its current predecessor and successor.
C3_Idempotent ==
  (simCalls > 0 /\ HeldAt(simArg, simDel, simStake)) =>
    LastHints = Neighbours(simArg, simDel)

\* the length claimed for the simulated list: the pool's when the target was
\* present, one more when it was absent, capped at the pool's when full
C4_ExpectedLen ==
  LET base == IF simDel \in AddrsOf(simArg) THEN Len(simArg) ELSE Len(simArg) + 1
  IN  IF simFull /\ base > Len(simArg) THEN Len(simArg) ELSE base

\* C4: the simulated list is sorted descending and has the pool's length when
\* the target was present, one more when it was absent, and is capped at the
\* pool's length when the pool is full.
C4_SortedAndLength ==
  simCalls > 0 => IsSortedDesc(simList) /\ Len(simList) = C4_ExpectedLen

\* the target's new stake is strictly below the stake of every other entry
StrictlyLowest(pool, del, stake) ==
  \A i \in 1..Len(pool) :
    pool[i].Address # del => stake < pool[i].DelegatedStake

\* C5: when the pool is full and the target's new stake is strictly the lowest,
\* the target is not in the simulated list and no hints are returned.
C5_Eviction ==
  (simCalls > 0 /\ simFull /\ StrictlyLowest(simArg, simDel, simStake)) =>
    simDel \notin AddrsOf(simList) /\ LastHints = NoHints

\* a full pool of at least two whose member lowers its stake below all others
C5_Witness ==
  /\ simCalls > 0 /\ simFull /\ Len(simArg) >= 2
  /\ simDel \in AddrsOf(simArg)
  /\ StrictlyLowest(simArg, simDel, simStake)
  /\ simDel \notin AddrsOf(simList)

\* C6 as stated: a pool of size 0 or 1 yields no hints, whatever the target, the
\* stake and the full flag.
C6_SmallPoolNoHints ==
  (simCalls > 0 /\ Len(simArg) <= 1) => LastHints = NoHints

\* C6 amended: a pool of size 0 yields no hints; a pool of size 1 yields no hints
\* when it is full or its one entry is the target.
C6_SmallPoolNoHintsUnlessInserted ==
  (/\ simCalls > 0
   /\ \/ Len(simArg) = 0
      \/ Len(simArg) = 1 /\ (simFull \/ simArg[1].Address = simDel)) =>
    LastHints = NoHints

\* a full pool of one and another address as target
C6_Witness ==
  /\ simCalls > 0 /\ Len(simArg) = 1 /\ simFull
  /\ simArg[1].Address # simDel
  /\ LastHints = NoHints

\* entries i < j of the pool keep their order in the simulated list
KeepOrder(pool, l, i, j) ==
  (pool[i].Address \in AddrsOf(l) /\ pool[j].Address \in AddrsOf(l)) =>
    PosOf(l, pool[i].Address) < PosOf(l, pool[j].Address)

\* the entry's stake is the same in the simulated list as in the pool
StakeKept(t) == t.Address = simDel => t.DelegatedStake = simStake

Submitted(method) == \E i \in 1..Len(txs) : txs[i].method = method

LastTx == txs[Len(txs)]

\* C8: Bond submits an approval exactly when the allowance read is lower than the
\* amount; the bond transaction is then submitted only after CheckTx has reported
\* the approval confirmed; a failed approval or confirmation ends the call with
\* no bond transaction.
C8_ApprovalBeforeBond ==
  op = "Bond" =>
    /\ Submitted("Approve") => loc.allowance < args.amount
    /\ (pc \in {"pool", "maxsize", "delegator", "round", "pending", "oldtotal", "total", "submit"}
          /\ loc.allowance < args.amount) =>
         (Submitted("Approve") /\ obs.approval = "ok")
    /\ (Submitted("BondWithHint") /\ loc.allowance < args.amount) =>
         /\ Len(txs) = 2
         /\ txs[1].method = "Approve" /\ txs[2].method = "BondWithHint"
         /\ obs.approval = "ok"
    /\ (Submitted("BondWithHint") /\ loc.allowance >= args.amount) => Len(txs) = 1
    /\ obs.approval = "failed" => (pc = "done" /\ ret # NoErr)
    /\ (pc = "done" /\ ret # NoErr) => ~Submitted("BondWithHint")

\* the approval was needed, confirmed, and the bond transaction followed
C8_Witness ==
  /\ op = "Bond" /\ pc = "done" /\ ret = NoErr
  /\ loc.allowance < args.amount
  /\ obs.approval = "ok"
  /\ Len(txs) = 2 /\ txs[2].method = "BondWithHint"

\* the pool slice as Bond read it, and whether it was full
BondPoolRead == TranscoderPoolSlice(obs.pool)

BondPoolFull == Len(obs.pool) = loc.maxSize

BondSwitches ==
  /\ loc.delegator.DelegateAddress # NullAddress
  /\ loc.delegator.DelegateAddress # args.to

\* the removal computation of a switching Bond
BondRemoval ==
  simulateTranscoderPoolUpdate(loc.delegator.DelegateAddress,
                               obs.oldTotal - loc.delegatorTotalStake,
                               BondPoolRead, BondPoolFull)

\* C9: a Bond that switches delegates carries removal hints computed for the old
\* delegate with stake (its total stake - the caller's pending stake) and insertion
\* hints computed for `to` with stake (to's total stake + pending stake + amount),
\* on the caller's slice as the removal computation left it; a Bond that does not
\* switch carries no removal hints and insertion hints for (to's total stake + amount).
C9_BondHints ==
  (op = "Bond" /\ Submitted("BondWithHint")) =>
    IF BondSwitches
      THEN /\ LastTx.old = BondRemoval.hints
           /\ LastTx.new =
                simulateTranscoderPoolUpdate(
                  args.to, obs.toTotal + loc.delegatorTotalStake + args.amount,
                  BondRemoval.caller, BondPoolFull).hints
      ELSE /\ LastTx.old = NoHints
           /\ LastTx.new =
                simulateTranscoderPoolUpdate(
                  args.to, obs.toTotal + args.amount, BondPoolRead, BondPoolFull).hints

\* a switching Bond with pending stake whose two hint pairs are both in use
C9_Witness ==
  /\ op = "Bond" /\ Submitted("BondWithHint") /\ BondSwitches
  /\ loc.delegatorTotalStake > 0 /\ args.amount > 0
  /\ LastTx.old # NoHints /\ LastTx.new # NoHints
  /\ LastTx.old # LastTx.new

\* C10 as stated: once a read of an invocation has failed, the invocation has
\* submitted no transaction of any kind.
C10_NoTxOnReadFailure == obs.readFailed => txs = <<>>

\* C10 amended: once a read of an invocation has failed, the invocation has not
\* submitted its final transaction; the one transaction it can have submitted is
\* the approval of a Bond whose failing read came after the allowance read.
C10_NoFinalTxOnReadFailure ==
  obs.readFailed =>
    \/ txs = <<>>
    \/ op = "Bond" /\ Len(txs) = 1 /\ txs[1].method = "Approve"

\* a Bond whose pool read failed after its approval was confirmed
C10_Witness ==
  /\ op = "Bond" /\ pc = "done" /\ obs.readFailed
  /\ obs.approval = "ok"
  /\ Len(txs) = 1 /\ txs[1].method = "Approve"
  /\ ret = Wrapf(ErrCall, "unable to get transcoder pool")


\* ------------------------------------------------------------------------
\* Properties of the error paths of the staking operations.
\* the operations that read, compute hints and submit
Orchestrated == {"Bond", "Unbond", "Rebond", "RebondFromUnbonded", "Reward"}

\* C11: a read error that ends Bond, Unbond, Rebond, RebondFromUnbonded or Reward
\* is returned wrapped in the name of the step that failed, never bare.
C11_ReadErrorsWrapped ==
  (op \in Orchestrated /\ obs.readFailed) => Len(ret) >= 2

\* C12: a Reward that reads a total bonded stake of zero returns the error
\* "no rewards to be minted", which it returns in no other case, without reading
\* the pool and without handing any transaction to the backend.
C12_NothingToMint ==
  op = "Reward" =>
    /\ obs.bonded = 0 =>
         /\ pc = "done" /\ ret = ErrNoRewards
         /\ txs = <<>> /\ obs.attempts = <<>> /\ ~obs.poolRead
    /\ ret = ErrNoRewards => obs.bonded = 0

\* a Reward with tokens to mint and stake in its earnings pool, and nothing bonded
C12_Witness ==
  /\ op = "Reward" /\ pc = "done" /\ ret = ErrNoRewards
  /\ obs.bonded = 0 /\ loc.mintable > 0 /\ loc.ep > 0

\* floor(n / d) for n >= 0 and d > 0, by its defining inequalities
Floor(n, d) == CHOOSE q \in 0..n : q * d <= n /\ n < (q + 1) * d

\* Reward has computed its reward / its hints
RewardComputed == op = "Reward" /\ obs.bonded > 0

RewardHinted == op = "Reward" /\ (pc = "submit" \/ obs.attempts # <<>>)

\* C13: Reward's reward is floor(mintable * totalStake / totalBonded), the product
\* taken before the division, and the hints it submits are those of its own address
\* with stake (earnings-pool totalStake + reward) in the pool it has just read.
C13_RewardAmountAndHints ==
  /\ (RewardComputed /\ pc \in {"pool", "maxsize"}) =>
       loc.reward = Floor(loc.mintable * loc.ep, loc.totalBonded)
  /\ RewardHinted =>
       /\ loc.reward = loc.ep + Floor(loc.mintable * loc.ep, loc.totalBonded)
       /\ loc.hints = PositionHints(Account,
                        SimulatedList(obs.pool, Account, loc.reward,
                                      Len(obs.pool) = loc.maxSize))
  /\ (op = "Reward" /\ txs # <<>>) =>
       txs = <<Tx("RewardWithHint", 0, NullAddress, 0, NoHints, loc.hints)>>

\* a reward that dividing first would lose, submitted with hints in use
C13_Witness ==
  /\ op = "Reward" /\ Submitted("RewardWithHint")
  /\ loc.mintable < loc.totalBonded
  /\ loc.reward > loc.ep
  /\ LastTx.new # NoHints

\* C14: Transcoder hands its transaction to the backend if and only if the
\* current-round-locked read succeeded and reported false; when it reports true the
\* call returns ErrCurrentRoundLocked and nothing is submitted.
C14_TranscoderOnlyUnlocked ==
  op = "Transcoder" =>
    /\ (pc = "submit" \/ obs.attempts # <<>>) <=> (obs.flag = "false")
    /\ obs.flag = "true" =>
         /\ pc = "done" /\ ret = ErrCurrentRoundLocked
         /\ txs = <<>> /\ obs.attempts = <<>>
    /\ obs.readFailed => (obs.flag = "none" /\ txs = <<>> /\ obs.attempts = <<>>)
    /\ txs # <<>> => txs = <<Tx("Transcoder", 0, NullAddress, 0, NoHints, NoHints)>>

\* the round was read locked and the call has returned
C14_Witness ==
  /\ op = "Transcoder" /\ pc = "done" /\ obs.flag = "true"
  /\ ret = ErrCurrentRoundLocked /\ txs = <<>>

\* C15: InitializeRound hands its transaction to the backend only when the
\* round-initialized read reported false; when it reports true the call returns
\* the error "ErrRoundInitialized", which it returns in no other case, and nothing
\* is submitted; so a call submits only while it observes the round uninitialized.
C15_InitializeOnlyUninitialized ==
  op = "InitializeRound" =>
    /\ (pc = "submit" \/ obs.attempts # <<>>) => obs.flag = "false"
    /\ obs.flag = "true" =>
         /\ pc = "done" /\ ret = ErrRoundInitialized
         /\ txs = <<>> /\ obs.attempts = <<>>
    /\ ret = ErrRoundInitialized => obs.flag = "true"
    /\ Len(obs.attempts) <= 1
    /\ txs # <<>> => txs = <<Tx("InitializeRound", 0, NullAddress, 0, NoHints, NoHints)>>

\* the round was read initialized and the call has returned
C15_Witness ==
  /\ op = "InitializeRound" /\ pc = "done" /\ obs.flag = "true"
  /\ ret = ErrRoundInitialized /\ txs = <<>>


\* ------------------------------------------------------------------------
\* Properties of CheckTx and the receipts broadcast to its callers.
\* what a receipt says of its transaction, by its status alone
StatusOutcome(m) == IF m.Status = 1 THEN NoErr ELSE ErrTxFailed(m.TxHash)

\* what a receipt says of its transaction: the error of the wait for it, if any,
\* otherwise its status
ReceiptOutcome(m) == IF m.err # NoErr THEN m.err ELSE StatusOutcome(m)

LastSeen(c) == ck[c].seen[Len(ck[c].seen)]

\* the receipts caller c took from its channel and went on waiting
Discarded(c) ==
  IF ck[c].by = "receipt" THEN SubSeq(ck[c].seen, 1, Len(ck[c].seen) - 1)
  ELSE ck[c].seen

\* caller c returned only on a receipt of its own transaction or on a failure of
\* the stream, and every receipt it discarded was of another transaction
ReturnsOnMatchOnly(c) ==
  /\ \A i \in 1..Len(Discarded(c)) : Discarded(c)[i].originTxHash # ck[c].tx
  /\ ck[c].pc = "done" =>
       \/ ck[c].by = "err" /\ ck[c].notified /\ ck[c].ret = ErrSubscription
       \/ ck[c].by = "receipt" /\ LastSeen(c).originTxHash = ck[c].tx
  /\ ck[c].pc # "done" => (ck[c].by = "none" /\ ck[c].ret = NoErr)

ReturnedOnReceipt(c) == ck[c].pc = "done" /\ ck[c].by = "receipt"

\* C16 as stated: CheckTx returns only on a receipt of its own transaction or on a
\* stream failure, discards the other receipts, and on a matching receipt returns
\* nil if the status is success and the "transaction failed" error with the mined
\* hash otherwise.
C16_ResultByStatus ==
  \A c \in Callers :
    /\ ReturnsOnMatchOnly(c)
    /\ ReturnedOnReceipt(c) => ck[c].ret = StatusOutcome(LastSeen(c))

\* C16 amended: ... on a matching receipt that carries an error of the wait it
\* returns that error; on one without, nil if the status is success and the
\* "transaction failed" error with the mined hash otherwise.
C16_ResultByReceipt ==
  \A c \in Callers :
    /\ ReturnsOnMatchOnly(c)
    /\ ReturnedOnReceipt(c) => ck[c].ret = ReceiptOutcome(LastSeen(c))

\* a caller that discarded another transaction's receipt and then returned the
\* failure of its own, mined under a replacement hash
C16_Witness ==
  \E c \in Callers :
    /\ ReturnedOnReceipt(c) /\ Len(ck[c].seen) = 2
    /\ ck[c].seen[1].originTxHash # ck[c].tx
    /\ LastSeen(c).TxHash = ReplacedHash /\ LastSeen(c).err = NoErr
    /\ ck[c].ret = ErrTxFailed(ReplacedHash)

\* the receipts broadcast since caller c subscribed
SentSince(c) == SubSeq(sent, ck[c].regAt + 1, Len(sent))

\* each caller's channel holds the receipts broadcast since it subscribed that it
\* has not taken itself; what it returns on a receipt is its own outcome
ChannelsIndependent ==
  \A c \in Callers :
    /\ ck[c].seen = SubSeq(SentSince(c), 1, Len(ck[c].seen))
    /\ c \in subs =>
         chans[c] = SubSeq(SentSince(c), Len(ck[c].seen) + 1, Len(SentSince(c)))
    /\ (ck[c].pc = "waiting"
          /\ \E i \in 1..Len(SentSince(c)) : SentSince(c)[i].originTxHash = ck[c].tx) =>
         chans[c] # <<>>
    /\ ReturnedOnReceipt(c) =>
         \E i \in 1..Len(SentSince(c)) :
           /\ SentSince(c)[i].originTxHash = ck[c].tx
           /\ ck[c].ret = ReceiptOutcome(SentSince(c)[i])

\* caller c waits and its transaction's receipt was broadcast since it subscribed
OwnReceiptSent(c) ==
  /\ ck[c].pc = "waiting"
  /\ \E i \in 1..Len(SentSince(c)) : SentSince(c)[i].originTxHash = ck[c].tx

\* C17: callers resolve independently. Each caller's channel holds exactly the
\* receipts broadcast since it subscribed that it has not taken itself, whatever
\* the other caller has taken; a waiting caller whose transaction's receipt was
\* broadcast since it subscribed has a receipt to take and does return; and a
\* caller that returned on a receipt returned the outcome of its own transaction.
C17_Independent ==
  /\ []ChannelsIndependent
  /\ \A c \in Callers : OwnReceiptSent(c) ~> (ck[c].pc = "done")

\* both callers subscribed before anything was broadcast, wait on different
\* hashes, and each returned its own outcome: a failure for c1, whose receipt came
\* first, and nil for c2, which had to discard c1's receipt
C17_Witness ==
  /\ ck["c1"].regAt = 0 /\ ck["c2"].regAt = 0
  /\ ck["c1"].tx # ck["c2"].tx
  /\ Len(sent) = 2 /\ sent[1].originTxHash = ck["c1"].tx
  /\ ReturnedOnReceipt("c1") /\ ReturnedOnReceipt("c2")
  /\ ck["c1"].ret # NoErr /\ ck["c2"].ret = NoErr
  /\ Len(ck["c1"].seen) = 1 /\ Len(ck["c2"].seen) = 2

\* C18 as stated: every CheckTx that was registered when the stream failure was
\* propagated returns that error, whatever receipts it has seen.
C18_AllReturnFailure ==
  \A c \in Callers :
    (ck[c].notified /\ ck[c].pc = "done") => ck[c].ret = ErrSubscription

\* a caller registered when the failure was propagated has the error to take
\* while it waits, and returned the error or its own receipt's outcome
FailureOrOwnOutcome ==
  \A c \in Callers :
    ck[c].notified =>
      /\ ck[c].pc # "idle"
      /\ ck[c].pc = "waiting" => errc[c] = ErrSubscription
      /\ ck[c].pc = "done" =>
           \/ ck[c].by = "err" /\ ck[c].ret = ErrSubscription
           \/ /\ ck[c].by = "receipt"
              /\ LastSeen(c).originTxHash = ck[c].tx
              /\ ck[c].ret = ReceiptOutcome(LastSeen(c))

\* C18 amended: every CheckTx that was registered when the stream failure was
\* propagated returns, and returns either that error or, if select takes a
\* receipt of its own transaction that was broadcast before the failure, the
\* outcome of that receipt.
C18_FailureEndsWait ==
  /\ []FailureOrOwnOutcome
  /\ \A c \in Callers : ck[c].notified ~> (ck[c].pc = "done")

\* both callers were registered when the stream failed and both returned the
\* failure, one after discarding a receipt and with a receipt still in its
\* channel, the other having seen none
C18_Witness ==
  /\ \A c \in Callers :
       ck[c].notified /\ ck[c].pc = "done" /\ ck[c].by = "err"
         /\ ck[c].ret = ErrSubscription
  /\ Len(ck["c1"].seen) = 1 /\ chans["c1"] # <<>>
  /\ ck["c2"].seen = <<>>

\* ------------------------------------------------------------------------
\* Properties of GetDelegator, stated over one call.
\* the reads before the two pending reads have succeeded
ReachedPending ==
  /\ gd.reads.dInfo.err = NoErr
  /\ gd.reads.dStatus.err = NoErr
  /\ gd.reads.dStatus.val \in DelegatorStatuses
  /\ gd.reads.currentRound.err = NoErr

\* the result of a pending read as GetDelegator is to report it
Normalised(read) == IF read.err = ErrEmptyOutput THEN -1 ELSE read.val

Tolerated(read) == read.err \in {NoErr, ErrEmptyOutput}

\* C19: a pending-stake (pending-fees) read that fails with "abi: unmarshalling
\* empty output" gives a delegator with PendingStake (PendingFees) = -1 and no
\* error; one that fails with any other error makes GetDelegator return that
\* error and no delegator; -1 is reported in no other case.
C19_Sentinel ==
  (gd.called /\ ReachedPending) =>
    LET ps == gd.reads.pendingStake
        pf == gd.reads.pendingFees
    IN  /\ ~Tolerated(ps) => gd.result = [err |-> ps.err]
        /\ (Tolerated(ps) /\ ~Tolerated(pf)) => gd.result = [err |-> pf.err]
        /\ (Tolerated(ps) /\ Tolerated(pf)) =>
             /\ gd.result.err = NoErr
             /\ gd.result.PendingStake = Normalised(ps)
             /\ gd.result.PendingFees = Normalised(pf)

\* no checkpoint for the stake, fees read: a delegator with -1 and a real value
C19_Witness ==
  /\ gd.called /\ ReachedPending
  /\ gd.reads.pendingStake.err = ErrEmptyOutput
  /\ gd.reads.pendingFees = [err |-> NoErr, val |-> MaxAmount]
  /\ gd.result.err = NoErr
  /\ gd.result.PendingStake = -1 /\ gd.result.PendingFees = MaxAmount

\* ------------------------------------------------------------------------
\* Properties of one invocation's submissions.
\* how often method m was handed to the backend
Handed(m) == Cardinality({i \in 1..Len(obs.attempts) : obs.attempts[i] = m})

\* the final transaction of each operation
FinalMethod ==
  [Bond |-> "BondWithHint", Unbond |-> "UnbondWithHint", Rebond |-> "RebondWithHint",
   RebondFromUnbonded |-> "RebondFromUnbondedWithHint", Reward |-> "RewardWithHint",
   Transcoder |-> "Transcoder", InitializeRound |-> "InitializeRound"]

\* an invocation hands its final transaction to the backend at most once, a Bond
\* its approval at most once and nothing else; a hand-over the backend refused, or
\* an approval that was not confirmed, has ended the invocation with that error
AtMostOnce ==
  op # "idle" =>
    /\ Handed(FinalMethod[op]) <= 1
    /\ Handed("Approve") <= (IF op = "Bond" THEN 1 ELSE 0)
    /\ Len(obs.attempts) = Handed(FinalMethod[op]) + Handed("Approve")
    /\ Len(txs) <= Len(obs.attempts)
    /\ Len(txs) < Len(obs.attempts) => (pc = "done" /\ ret = ErrSend)
    /\ obs.approval = "failed" =>
         (pc = "done" /\ ret # NoErr /\ obs.attempts = <<"Approve">>)

\* C20: no automatic retry. Each invocation hands its final transaction to the
\* backend at most once (a Bond its approval at most once); after a failed
\* submission or confirmation it has returned the error, and an invocation that
\* has returned takes no further step: it reads nothing and submits nothing.
C20_NoRetry == []AtMostOnce /\ [][pc # "done"]_vars

\* a Bond whose approval was confirmed and whose bond transaction the backend refused
C20_Witness ==
  /\ op = "Bond" /\ pc = "done" /\ ret = ErrSend
  /\ obs.attempts = <<"Approve", "BondWithHint">>
  /\ Len(txs) = 1 /\ txs[1].method = "Approve"

\* ------------------------------------------------------------------------
\* Properties of the hints and amounts the staking operations submit.
\* the hints of address del with stake `stake` in the pool the invocation read
HintsInPoolRead(del, stake) ==
  PositionHints(del, SimulatedList(obs.pool, del, stake, Len(obs.pool) = loc.maxSize))

\* C22: Unbond submits one transaction, UnbondWithHint, with the amount it was
\* called with and the one hint pair of the caller's current delegate with stake
\* (the delegate's total stake - amount) in the pool read in this invocation.
C22_UnbondHints ==
  (op = "Unbond" /\ txs # <<>>) =>
    txs = <<Tx("UnbondWithHint", args.amount, NullAddress, 0, NoHints,
               HintsInPoolRead(loc.delegator.DelegateAddress,
                               obs.oldTotal - args.amount))>>

\* an unbonding that moves the delegate behind another entry of the pool
C22_Witness ==
  /\ op = "Unbond" /\ Submitted("UnbondWithHint")
  /\ args.amount > 0
  /\ Len(obs.pool) = 2
  /\ loc.delegator.DelegateAddress = obs.pool[1].Address
  /\ LastTx.new.PosPrev # NullAddress

\* C23: Rebond submits RebondWithHint with the hints of the caller's current
\* delegate, RebondFromUnbonded submits RebondFromUnbondedWithHint with the hints
\* of `to`, in both cases with stake (that delegate's total stake + the amount of
\* the unbonding lock) in the pool read in this invocation.
C23_RebondHints ==
  /\ (op = "Rebond" /\ txs # <<>>) =>
       txs = <<Tx("RebondWithHint", 0, NullAddress, args.lockID, NoHints,
                  HintsInPoolRead(loc.delegator.DelegateAddress,
                                  obs.oldTotal + loc.lock))>>
  /\ (op = "RebondFromUnbonded" /\ txs # <<>>) =>
       txs = <<Tx("RebondFromUnbondedWithHint", 0, args.to, args.lockID, NoHints,
                  HintsInPoolRead(args.to, obs.toTotal + loc.lock))>>

\* a rebonding whose lock amount moves the delegate ahead of another entry
C23_Witness ==
  /\ op \in {"Rebond", "RebondFromUnbonded"} /\ txs # <<>>
  /\ loc.lock > 0
  /\ Len(obs.pool) = 2 /\ LastTx.new.PosNext = obs.pool[1].Address

\* the error carries the message msg, bare or wrapped
Carries(err, msg) == \E i \in 1..Len(err) : err[i] = msg

\* C24: no staking operation returns the "abi: unmarshalling empty output"
\* condition of a pending-stake read as its error, bare or wrapped; in particular
\* not a Bond that switches delegates and reads the pending stake itself.
C24_NoCheckpointNotSurfaced ==
  op # "idle" => ~Carries(ret, ErrEmptyOutput[1])

\* C27: the bond transaction carries the amount Bond was called with, whether or
\* not the caller switches delegates, and no more than the amount the allowance
\* was found to cover or the approval was submitted for.
C27_BondAmount ==
  (op = "Bond" /\ Submitted("BondWithHint")) =>
    /\ LastTx.amount = args.amount
    /\ IF Submitted("Approve") THEN LastTx.amount <= txs[1].amount
                               ELSE LastTx.amount <= loc.allowance

\* C28: the insertion hints of a Bond that switches delegates are the hints the
\* simulator gives for `to` with stake (to's total stake + the new amount) on the
\* pool as TranscoderPool returned it in this invocation: the removal computation
\* before it has not changed that pool.
C28_InsertionOnSnapshot ==
  (op = "Bond" /\ Submitted("BondWithHint") /\ BondSwitches) =>
    LastTx.new =
      simulateTranscoderPoolUpdate(args.to, obs.toTotal + loc.amount,
                                   BondPoolRead, BondPoolFull).hints

\* ------------------------------------------------------------------
\* Properties of the subscription of CheckTx
\* ------------------------------------------------------------------

\* the calls of CheckTx that have returned hold no subscription
Removed == \A c \in Callers : ck[c].pc = "done" => c \notin subs

\* a step puts nothing on the channel of a call that has returned
NoDeliveryAfterReturn ==
  \A c \in Callers : ck[c].pc = "done" => Len(chans'[ChanOf(c)]) <= Len(chans[ChanOf(c)])

\* C25: whenever CheckTx has returned, on a matching receipt or on an error of
\* the subscription, its subscription is removed, and the broadcaster delivers
\* nothing more to it.
C25_Unsubscribed == []Removed /\ [][NoDeliveryAfterReturn]_vars

\* one call has returned on the subscription's error and the other on its
\* receipt, and no subscription is left
C25_Witness ==
  /\ \E c, d \in Callers :
       /\ ck[c].pc = "done" /\ ck[c].by = "err"
       /\ ck[d].pc = "done" /\ ck[d].by = "receipt"
  /\ subs = {}

\* C26: a call of CheckTx made for a submitted transaction, subscribing only
\* after the submission, returns eventually once the receipt of that transaction
\* has been broadcast, whether the broadcast comes before or after the
\* subscription is registered.
C26_WaitReturns ==
  \A c \in Callers :
    (ck[c].pc = "waiting" /\ ck[c].tx \in SentHashes) ~> (ck[c].pc = "done")

\* ------------------------------------------------------------------
\* Properties of TranscoderPool, stated over one walk of an on-chain list
\* ------------------------------------------------------------------

\* the sequences of addresses that start at the list's first address, follow its
\* next addresses and end where the next address is null: one sequence when the
\* list is acyclic from its first address, none when it loops
PathsOf(ch) ==
  {p \in UNION {[1..n -> Nodes] : n \in 0..Cardinality(Nodes)} :
     IF p = <<>> THEN ch.first = NullAddress
     ELSE /\ p[1] = ch.first
          /\ \A i \in 1..(Len(p) - 1) : ch.next[p[i]] = p[i + 1]
          /\ ch.next[p[Len(p)]] = NullAddress}

Acyclic(ch) == PathsOf(ch) # {}

\* the addresses of the entries, in order
AddressesOf(ts) == [i \in 1..Len(ts) |-> ts[i].Address]

\* the addresses the reads returned before the null address, in order
ReadBeforeNull ==
  SubSeq(walk.reads, 1, Len(walk.reads) - 1)

\* what a walk that has returned hands back
WalkResult ==
  walk.pc = "done" =>
    LET list == Elems(walk.result.list)
    IN  IF walk.result.err = NoErr
          THEN /\ PathsOf(walk.chain) = {AddressesOf(list)}
               /\ AddressesOf(list) = ReadBeforeNull
               /\ walk.reads[Len(walk.reads)] = NullAddress
               /\ UniqueAddrs(list)
               /\ walk.result.list = TranscoderPoolSlice(list)
          ELSE /\ walk.result.err = ErrCall
               /\ walk.result.list = NilSlice

\* C21: TranscoderPool returns the addresses reached from the first-transcoder
\* read by following the get-next reads up to the null address, in that order
\* and one entry per address; when a read fails it returns that error and no
\* list; and on a list that is acyclic it returns.
C21_PoolWalk ==
  /\ []WalkResult
  /\ (walk.pc # "idle" /\ Acyclic(walk.chain)) ~> (walk.pc = "done")

\* the walk of a list of three addresses has returned all three
C21_Witness ==
  /\ walk.pc = "done" /\ walk.result.err = NoErr
  /\ Len(Elems(walk.result.list)) = Cardinality(Nodes)
  /\ AddressesOf(Elems(walk.result.list)) = <<"B", "C", "A">>
=============================================================================
